---- MODULE Spec2Model ----
(***************************************************************************)
(* State-machine model of the page scripts of the Athna site:              *)
(*   - the card carousel             (src/slider.js, class CardSlider)     *)
(*   - the category dropdown         (src/shop-category.js)                *)
(*   - the smooth-scroll script      (src/unnamed/part_000)                *)
(* Each script has a specification of its own (SliderSpec, DropdownSpec,   *)
(* ScrollSpec); the variables of the other scripts stay unchanged in it.   *)
(* One action models the whole dispatch of one browser event or timer:     *)
(* every listener the event reaches, in bubbling order.                    *)
(***************************************************************************)
EXTENDS Integers, Sequences, FiniteSets, TLC

(***************************************************************************)
(* Bounds of the model.                                                    *)
(***************************************************************************)
\* largest number of real cards in the wrapper
MaxCards == 3
\* largest options.cardsToShow
MaxShow == 2
\* most slides whose timers (300 ms, then 50 ms) are pending at once
MaxTimers == 2
\* largest |currentTranslate| a drag may reach
MaxTranslate == 260

\* clientX / clientY of the pointer events, in px: differences fall on both
\* sides of LOCK_DISTANCE and of cardFullWidth / 3
Xs == {0, 6, 16}
Ys == {0, 10}
\* values calculateCardWidth may measure, in px
Widths == {30}

(***************************************************************************)
(* JavaScript numbers.  `undefined' and NaN are encoded as two integers    *)
(* outside every range the model computes with.                            *)
(***************************************************************************)
Undefined == -200000
NaN == -100000

IsNum(x) == x # NaN /\ x # Undefined
JsAdd(a, b) == IF IsNum(a) /\ IsNum(b) THEN a + b ELSE NaN
JsSub(a, b) == IF IsNum(a) /\ IsNum(b) THEN a - b ELSE NaN
JsMul(a, b) == IF IsNum(a) /\ IsNum(b) THEN a * b ELSE NaN
JsNeg(a) == IF IsNum(a) THEN 0 - a ELSE NaN
\* Math.min / Math.max: NaN as soon as one argument is not a number
JsMin(a, b) == IF IsNum(a) /\ IsNum(b) THEN (IF a < b THEN a ELSE b) ELSE NaN
JsMax(a, b) == IF IsNum(a) /\ IsNum(b) THEN (IF a > b THEN a ELSE b) ELSE NaN
JsAbs(a) == IF IsNum(a) THEN (IF a < 0 THEN 0 - a ELSE a) ELSE NaN
\* comparisons: false as soon as one operand is NaN
JsLt(a, b) == IsNum(a) /\ IsNum(b) /\ a < b
JsLe(a, b) == IsNum(a) /\ IsNum(b) /\ a <= b
JsGe(a, b) == IsNum(a) /\ IsNum(b) /\ a >= b
JsGt(a, b) == IsNum(a) /\ IsNum(b) /\ a > b

RECURSIVE Reverse(_)
Reverse(s) == IF s = <<>> THEN <<>> ELSE Reverse(Tail(s)) \o <<Head(s)>>

(***************************************************************************)
(* The carousel: src/slider.js                                             *)
(***************************************************************************)
VARIABLES
    totalRealCards,     \* this.totalRealCards
    cardsToShow,        \* this.options.cardsToShow
    loop,               \* this.options.loop
    wrapper,            \* the .product-card children of this.wrapper, in order
    totalCards,         \* this.totalCards (Undefined when never assigned)
    maxIndex,           \* this.maxIndex   (Undefined when never assigned)
    dots,               \* this.dots exists
    cardFullWidth,      \* this.cardFullWidth
    currentIndex,       \* this.currentIndex
    currentTranslate,   \* this.currentTranslate
    prevTranslate,      \* this.prevTranslate
    isAnimating,        \* this.isAnimating
    isDragging,         \* this.isDragging
    isHorizontalSwipe,  \* this.isHorizontalSwipe
    startX,             \* this.startX
    startY,             \* this.startY
    gestureResetTimer,  \* this.gestureResetTimer is a pending timer
    transition,         \* wrapper.style.transition: "unset", "none" or "ease"
    dragging,           \* wrapper has class 'dragging'
    activeDots,         \* indices of the dots with class 'active'
    initTimer,          \* the 10 ms timer of init is pending
    resetTimers,        \* number of pending 300 ms timers of slideToIndex
    unlockTimers,       \* number of pending 50 ms timers of slideToIndex
    touch,              \* target of the finger on the screen, or "none"
    mouseBtn,           \* the mouse button is held down
    mouseListening,     \* move / up of handleMouseDown are attached to document
    prevented,          \* the last event had preventDefault called on it
    last,               \* history: the last step and what it started from
    watch,              \* history: an operation followed until the slider settles
    vertical            \* history: a touchmove of this gesture was taken as vertical

cfgVars == <<totalRealCards, cardsToShow, loop, wrapper, totalCards, maxIndex, dots>>
sliderVars == <<cfgVars, cardFullWidth, currentIndex, currentTranslate, prevTranslate,
                isAnimating, isDragging, isHorizontalSwipe, startX, startY,
                gestureResetTimer, transition, dragging, activeDots, initTimer,
                resetTimers, unlockTimers, touch, mouseBtn, mouseListening,
                prevented, last, watch, vertical>>

\* the state of the dropdown
VARIABLES
    btnActive,          \* dropdownBtn has class 'active'
    menuShow,           \* dropdownMenu has class 'show'
    arrowTransform,     \* arrow.style.transform: "unset", "rotate(0deg)", "rotate(180deg)"
    hasArrow,           \* the button holds a .dropdown-arrow
    markup,             \* the classes and the arrow style the page is loaded with
    ddLast,             \* history: the last event, its listeners and the state before it
    ddRun               \* history: the states before the last button clicks in a row

ddVars == <<btnActive, menuShow, arrowTransform, hasArrow, markup, ddLast, ddRun>>

\* the state of the smooth-scroll script
VARIABLES
    page,               \* the page shown: "home" (isHomePage() holds) or "other"
    scrollY,            \* window.pageYOffset
    stored,             \* sessionStorage 'scrollTarget' (NoValue when absent)
    storedTimers,       \* targetId of each pending 500 ms timer, oldest first
    anims,              \* the animateScroll calls waiting for an animation frame
    finished,           \* history: the animateScroll calls that ended in the last step
    pushLog,            \* history: the history.pushState calls of the last step
    ssLast              \* history: the last event and the state before it

scrollVars == <<page, scrollY, stored, storedTimers, anims, finished, pushLog, ssLast>>

vars == <<sliderVars, ddVars, scrollVars>>

\* the cards of the page, before setupInfiniteLoop
RealCards(n) == [i \in 1..n |-> [real |-> i - 1, clone |-> FALSE]]
AsClones(cards) == [i \in 1..Len(cards) |-> [real |-> cards[i].real, clone |-> TRUE]]

\* setupInfiniteLoop: the children of the wrapper afterwards
setupInfiniteLoop(n, c) ==
    LET cards == RealCards(n)
        cloneCount == IF n < c THEN n ELSE c
        firstCards == AsClones(SubSeq(cards, 1, cloneCount))
        lastCards == AsClones(SubSeq(cards, n - cloneCount + 1, n))
    IN  IF n <= c THEN cards
        \* each of lastCards is inserted before the first child in turn
        ELSE Reverse(lastCards) \o cards \o firstCards

\* the real card shown at wrapper position p (0-based)
CardAt(p) == IF IsNum(p) /\ p >= 0 /\ p < Len(wrapper) THEN wrapper[p + 1].real ELSE NaN
IsCloneAt(p) == IsNum(p) /\ p >= 0 /\ p < Len(wrapper) /\ wrapper[p + 1].clone

\* the fields of the slider the methods write, as one record
Cur == [currentIndex |-> currentIndex, currentTranslate |-> currentTranslate,
        prevTranslate |-> prevTranslate, isAnimating |-> isAnimating,
        isDragging |-> isDragging, isHorizontalSwipe |-> isHorizontalSwipe,
        startX |-> startX, startY |-> startY,
        gestureResetTimer |-> gestureResetTimer, transition |-> transition,
        dragging |-> dragging, activeDots |-> activeDots,
        resetTimers |-> resetTimers, cardFullWidth |-> cardFullWidth,
        mouseListening |-> mouseListening, prevented |-> FALSE]

Commit(s) ==
    /\ s.resetTimers + unlockTimers <= MaxTimers
    /\ IsNum(s.currentTranslate) =>
          (s.currentTranslate <= MaxTranslate /\ s.currentTranslate >= 0 - MaxTranslate)
    /\ currentIndex' = s.currentIndex
    /\ currentTranslate' = s.currentTranslate
    /\ prevTranslate' = s.prevTranslate
    /\ isAnimating' = s.isAnimating
    /\ isDragging' = s.isDragging
    /\ isHorizontalSwipe' = s.isHorizontalSwipe
    /\ startX' = s.startX
    /\ startY' = s.startY
    /\ gestureResetTimer' = s.gestureResetTimer
    /\ transition' = s.transition
    /\ dragging' = s.dragging
    /\ activeDots' = s.activeDots
    /\ resetTimers' = s.resetTimers
    /\ cardFullWidth' = s.cardFullWidth
    /\ mouseListening' = s.mouseListening
    /\ prevented' = s.prevented

updateDots(s) ==
    IF ~dots \/ ~loop THEN s
    ELSE LET r0 == JsSub(s.currentIndex, cardsToShow)
             realIndex == IF JsLt(r0, 0) THEN JsAdd(totalRealCards, r0)
                          ELSE IF JsGe(r0, totalRealCards) THEN JsSub(r0, totalRealCards)
                          ELSE r0
         IN  [s EXCEPT !.activeDots = {i \in 0..(totalRealCards - 1) : i = realIndex}]

slideToIndex(s, index, animate) ==
    IF s.isAnimating THEN s
    ELSE LET idx == JsMax(0, JsMin(index, maxIndex))
             tr == JsNeg(JsMul(idx, s.cardFullWidth))
             s1 == updateDots([s EXCEPT !.transition = IF animate THEN "ease" ELSE "none",
                                        !.currentIndex = idx,
                                        !.currentTranslate = tr,
                                        !.prevTranslate = tr])
         IN  IF loop /\ animate
             THEN [s1 EXCEPT !.isAnimating = TRUE, !.resetTimers = @ + 1]
             ELSE s1

\* the body of the 300 ms timer of slideToIndex, up to the inner setTimeout
loopReset(s) ==
    LET ci == s.currentIndex
        c1 == cardsToShow - 1
    IN  IF JsLe(ci, c1)
        THEN LET j == JsSub(maxIndex, JsSub(c1, ci))
                 tr == JsNeg(JsMul(j, s.cardFullWidth))
             IN  [s EXCEPT !.transition = "none", !.currentIndex = j,
                           !.currentTranslate = tr, !.prevTranslate = tr]
        ELSE IF JsGe(ci, JsSub(maxIndex, c1))
        THEN LET j == JsAdd(JsSub(ci, JsSub(maxIndex, c1)), c1)
                 tr == JsNeg(JsMul(j, s.cardFullWidth))
             IN  [s EXCEPT !.transition = "none", !.currentIndex = j,
                           !.currentTranslate = tr, !.prevTranslate = tr]
        ELSE s

slideToRealIndex(s, realIndex) ==
    IF loop THEN slideToIndex(s, realIndex + cardsToShow, TRUE)
    ELSE slideToIndex(s, realIndex, TRUE)

forceResetGesture(s) ==
    [s EXCEPT !.isDragging = FALSE, !.isHorizontalSwipe = FALSE, !.isAnimating = FALSE,
              !.gestureResetTimer = FALSE, !.dragging = FALSE, !.transition = "ease"]

slidePrev(s) == IF s.isAnimating THEN s ELSE slideToIndex(s, JsSub(s.currentIndex, 1), TRUE)
slideNext(s) == IF s.isAnimating THEN s ELSE slideToIndex(s, JsAdd(s.currentIndex, 1), TRUE)

\* movedBy of dragEnd
MovedBy(s) == JsSub(s.currentTranslate, s.prevTranslate)
\* Math.abs(movedBy) > this.cardFullWidth / 3
OverThreshold(m, w) == IsNum(m) /\ IsNum(w) /\ 3 * JsAbs(m) > w

dragEnd(s) ==
    LET s0 == [s EXCEPT !.transition = "ease"]
        movedBy == MovedBy(s)
    IN  IF OverThreshold(movedBy, s.cardFullWidth)
        THEN slideToIndex(s0, JsAdd(s.currentIndex, IF movedBy < 0 THEN 1 ELSE -1), TRUE)
        ELSE slideToIndex(s0, s.currentIndex, TRUE)

LOCK_DISTANCE == 8

handleTouchStart(s, tgt, x, y) ==
    IF tgt = "link" \/ s.isAnimating THEN s
    ELSE [s EXCEPT !.gestureResetTimer = FALSE, !.startX = x, !.startY = y,
                   !.isDragging = FALSE, !.isHorizontalSwipe = FALSE,
                   !.prevTranslate = s.currentTranslate, !.transition = "none"]

handleTouchMove(s, x, y) ==
    IF s.isAnimating THEN s
    ELSE LET diffX == x - s.startX
             diffY == y - s.startY
             moved(t) == [t EXCEPT !.prevented = TRUE,
                                   !.currentTranslate = JsAdd(t.prevTranslate, diffX)]
         IN  IF ~s.isDragging /\ ~s.isHorizontalSwipe
             THEN IF JsAbs(diffX) < LOCK_DISTANCE /\ JsAbs(diffY) < LOCK_DISTANCE THEN s
                  ELSE IF JsAbs(diffX) > JsAbs(diffY)
                  THEN moved([s EXCEPT !.isHorizontalSwipe = TRUE, !.isDragging = TRUE,
                                       !.transition = "none", !.dragging = TRUE])
                  ELSE s
             ELSE IF s.isDragging THEN moved(s) ELSE s

\* handleTouchMove reaches its "vertical scroll" return
ClassifiesVertical(s, x, y) ==
    LET diffX == x - s.startX
        diffY == y - s.startY
    IN  /\ ~s.isAnimating
        /\ ~s.isDragging /\ ~s.isHorizontalSwipe
        /\ ~(JsAbs(diffX) < LOCK_DISTANCE /\ JsAbs(diffY) < LOCK_DISTANCE)
        /\ ~(JsAbs(diffX) > JsAbs(diffY))

handleTouchEnd(s) ==
    LET s1 == IF s.isDragging /\ ~s.isAnimating
              THEN [dragEnd(s) EXCEPT !.dragging = FALSE]
              ELSE s
    IN  [s1 EXCEPT !.isDragging = FALSE, !.gestureResetTimer = TRUE]

handleMouseDown(s, tgt, x) ==
    IF tgt = "link" \/ s.isAnimating THEN s
    ELSE [s EXCEPT !.prevented = TRUE, !.startX = x,
                   !.prevTranslate = s.currentTranslate, !.isDragging = TRUE,
                   !.transition = "none", !.mouseListening = TRUE]

\* the closures move and up of handleMouseDown
move(s, x) ==
    IF s.isAnimating THEN s
    ELSE [s EXCEPT !.currentTranslate = JsAdd(s.prevTranslate, x - s.startX)]

up(s) ==
    LET s1 == IF s.isDragging /\ ~s.isAnimating THEN dragEnd(s) ELSE s
    IN  [s1 EXCEPT !.mouseListening = FALSE]

\* no drag in progress, no slide timer pending
Settled == /\ ~initTimer /\ resetTimers = 0 /\ unlockTimers = 0
           /\ touch = "none" /\ ~mouseBtn /\ ~isDragging

NoWatch == [op |-> "none", from |-> 0]
Step(op, from, m) == [op |-> op, from |-> from, m |-> m]
\* a step no property looks back at
Other == Step("other", 0, 0)

\* constructor and init, up to the first timer
SliderInit ==
    /\ totalRealCards \in 1..MaxCards
    /\ cardsToShow \in 1..MaxShow
    /\ \E loopOpt \in BOOLEAN : loop = (loopOpt /\ totalRealCards > cardsToShow)
    /\ wrapper = setupInfiniteLoop(totalRealCards, cardsToShow)
    /\ totalCards = IF totalRealCards <= cardsToShow THEN Undefined ELSE Len(wrapper)
    /\ maxIndex = IF totalRealCards <= cardsToShow THEN Undefined
                  ELSE Len(wrapper) - cardsToShow
    /\ \E dotsContainer \in BOOLEAN : dots = (dotsContainer /\ loop)
    /\ activeDots = IF dots THEN {0} ELSE {}
    /\ cardFullWidth \in Widths
    /\ currentIndex = 0 /\ currentTranslate = 0 /\ prevTranslate = 0
    /\ isAnimating = FALSE /\ isDragging = FALSE /\ isHorizontalSwipe = FALSE
    /\ startX = 0 /\ startY = 0
    /\ gestureResetTimer = FALSE
    /\ transition = "unset" /\ dragging = FALSE
    /\ initTimer = loop
    /\ resetTimers = 0 /\ unlockTimers = 0
    /\ touch = "none" /\ mouseBtn = FALSE /\ mouseListening = FALSE
    /\ prevented = FALSE
    /\ last = Step("construct", 0, 0)
    /\ watch = NoWatch
    /\ vertical = FALSE

\* the 10 ms timer of init
InitTimerFire ==
    /\ initTimer
    /\ initTimer' = FALSE
    /\ Commit(slideToIndex([Cur EXCEPT !.currentIndex = totalRealCards],
                           totalRealCards, FALSE))
    /\ last' = Step("init", currentIndex, 0)
    /\ watch' = NoWatch
    /\ UNCHANGED <<cfgVars, unlockTimers, touch, mouseBtn, vertical>>
    /\ UNCHANGED <<ddVars, scrollVars>>

\* click on .next-arrow / .prev-arrow
NextArrowClick ==
    /\ Commit(slideNext(Cur))
    /\ last' = Step("next", 0, 0)
    /\ watch' = IF Settled /\ loop
                THEN [op |-> "next", from |-> CardAt(currentIndex)] ELSE NoWatch
    /\ UNCHANGED <<cfgVars, initTimer, unlockTimers, touch, mouseBtn, vertical>>
    /\ UNCHANGED <<ddVars, scrollVars>>

PrevArrowClick ==
    /\ Commit(slidePrev(Cur))
    /\ last' = Step("prev", 0, 0)
    /\ watch' = IF Settled /\ loop
                THEN [op |-> "prev", from |-> CardAt(currentIndex)] ELSE NoWatch
    /\ UNCHANGED <<cfgVars, initTimer, unlockTimers, touch, mouseBtn, vertical>>
    /\ UNCHANGED <<ddVars, scrollVars>>

\* click on the dot of real card i
DotClick ==
    /\ dots
    /\ \E i \in 0..(totalRealCards - 1) :
          /\ Commit(slideToRealIndex(Cur, i))
          /\ last' = Step("dot", 0, 0)
    /\ watch' = NoWatch
    /\ UNCHANGED <<cfgVars, initTimer, unlockTimers, touch, mouseBtn, vertical>>
    /\ UNCHANGED <<ddVars, scrollVars>>

\* window resize: calculateCardWidth, then slideToIndex(currentIndex, false)
Resize ==
    /\ \E w \in Widths :
          Commit(slideToIndex([Cur EXCEPT !.cardFullWidth = w], currentIndex, FALSE))
    /\ last' = Step("resize", 0, 0)
    /\ watch' = NoWatch
    /\ UNCHANGED <<cfgVars, initTimer, unlockTimers, touch, mouseBtn, vertical>>
    /\ UNCHANGED <<ddVars, scrollVars>>

\* the 300 ms timer of slideToIndex; it cannot be due before the 10 ms timer
ResetTimerFire ==
    /\ resetTimers > 0
    /\ ~initTimer
    /\ Commit([loopReset(Cur) EXCEPT !.resetTimers = @ - 1])
    /\ unlockTimers' = unlockTimers + 1
    /\ last' = Step("reset", currentIndex, 0)
    /\ UNCHANGED <<cfgVars, initTimer, touch, mouseBtn, watch, vertical>>
    /\ UNCHANGED <<ddVars, scrollVars>>

\* the 50 ms timer set by the 300 ms timer
UnlockTimerFire ==
    /\ unlockTimers > 0
    /\ unlockTimers' = unlockTimers - 1
    /\ Commit([Cur EXCEPT !.isAnimating = FALSE])
    /\ last' = Other
    /\ UNCHANGED <<cfgVars, initTimer, touch, mouseBtn, watch, vertical>>
    /\ UNCHANGED <<ddVars, scrollVars>>

\* touchstart: the wrapper's listener when the target is inside it, then
\* the document's
TouchStart ==
    /\ touch = "none"
    /\ ~mouseBtn
    /\ \E tgt \in {"card", "link", "outside"}, x \in Xs, y \in Ys :
          /\ touch' = tgt
          /\ Commit(IF tgt = "outside" THEN forceResetGesture(Cur)
                    ELSE handleTouchStart(Cur, tgt, x, y))
          /\ watch' = IF Settled /\ tgt = "card"
                      THEN [op |-> "drag", from |-> currentIndex] ELSE NoWatch
    /\ last' = Other
    /\ vertical' = FALSE
    /\ UNCHANGED <<cfgVars, initTimer, unlockTimers, mouseBtn>>
    /\ UNCHANGED <<ddVars, scrollVars>>

TouchMove ==
    /\ touch # "none"
    /\ \E x \in Xs, y \in Ys :
          /\ Commit(IF touch = "outside" THEN forceResetGesture(Cur)
                    ELSE handleTouchMove(Cur, x, y))
          /\ vertical' = (vertical \/ (touch # "outside" /\ ClassifiesVertical(Cur, x, y)))
    /\ last' = Other
    /\ watch' = IF watch.op = "drag" /\ touch = "card" THEN watch ELSE NoWatch
    /\ UNCHANGED <<cfgVars, initTimer, unlockTimers, touch, mouseBtn>>
    /\ UNCHANGED <<ddVars, scrollVars>>

\* touchend: handleTouchEnd when the target is inside the wrapper, then the
\* document's listener, which always calls forceResetGesture
TouchEnd ==
    /\ touch # "none"
    /\ touch' = "none"
    /\ Commit(IF touch = "outside" THEN forceResetGesture(Cur)
              ELSE forceResetGesture(handleTouchEnd(Cur)))
    /\ last' = IF touch # "outside" /\ isDragging /\ ~isAnimating /\ watch.op = "drag"
               THEN Step("release", watch.from, MovedBy(Cur))
               ELSE Other
    /\ watch' = NoWatch
    /\ vertical' = FALSE
    /\ UNCHANGED <<cfgVars, initTimer, unlockTimers, mouseBtn>>
    /\ UNCHANGED <<ddVars, scrollVars>>

\* mousedown: handleMouseDown when the target is inside the wrapper, then the
\* document's listener
MouseDown ==
    /\ ~mouseBtn
    /\ touch = "none"
    /\ mouseBtn' = TRUE
    /\ \E tgt \in {"card", "link", "outside"}, x \in Xs :
          /\ Commit(IF tgt = "outside" THEN forceResetGesture(Cur)
                    ELSE handleMouseDown(Cur, tgt, x))
          /\ watch' = IF Settled /\ tgt = "card"
                      THEN [op |-> "drag", from |-> currentIndex] ELSE NoWatch
    /\ last' = Other
    /\ UNCHANGED <<cfgVars, initTimer, unlockTimers, touch, vertical>>
    /\ UNCHANGED <<ddVars, scrollVars>>

MouseMove ==
    /\ mouseListening
    /\ \E x \in Xs : Commit(move(Cur, x))
    /\ last' = Other
    /\ UNCHANGED <<cfgVars, initTimer, unlockTimers, touch, mouseBtn, watch, vertical>>
    /\ UNCHANGED <<ddVars, scrollVars>>

MouseUp ==
    /\ mouseBtn
    /\ mouseBtn' = FALSE
    /\ Commit(IF mouseListening THEN up(Cur) ELSE Cur)
    /\ last' = IF mouseListening /\ isDragging /\ ~isAnimating /\ watch.op = "drag"
               THEN Step("release", watch.from, MovedBy(Cur))
               ELSE Other
    /\ watch' = NoWatch
    /\ UNCHANGED <<cfgVars, initTimer, unlockTimers, touch, vertical>>
    /\ UNCHANGED <<ddVars, scrollVars>>

SliderNext ==
    \/ InitTimerFire
    \/ NextArrowClick
    \/ PrevArrowClick
    \/ DotClick
    \/ Resize
    \/ ResetTimerFire
    \/ UnlockTimerFire
    \/ TouchStart
    \/ TouchMove
    \/ TouchEnd
    \/ MouseDown
    \/ MouseMove
    \/ MouseUp


(***************************************************************************)
(* Properties of the carousel.                                             *)
(***************************************************************************)
Mod(a, n) == ((a % n) + n) % n
\* the steps that called slideToIndex, or ran its wrap-around timer
SlideSteps == {"init", "next", "prev", "dot", "resize", "release", "reset"}
\* the wrap-around timer found currentIndex p inside the leading or trailing clones
InClones(p) == p <= cardsToShow - 1 \/ p >= maxIndex - (cardsToShow - 1)

\* C1: in loop mode, when the slider has settled again after one click on the
\* next (prev) arrow made while it was settled on real card r, it shows real
\* card (r + 1) mod N (respectively (r - 1) mod N).
C1_InfiniteCarousel ==
    (loop /\ Settled /\ watch.op \in {"next", "prev"}) =>
        CardAt(currentIndex) =
            Mod(watch.from + (IF watch.op = "next" THEN 1 ELSE -1), totalRealCards)

\* C2: when the wrap-around timer finds currentIndex inside the clones, the new
\* currentIndex is a non-clone position showing the same real card as before.
C2_SeamlessWrap ==
    (last.op = "reset" /\ InClones(last.from)) =>
        /\ cardsToShow <= currentIndex
        /\ currentIndex < cardsToShow + totalRealCards
        /\ CardAt(currentIndex) = CardAt(last.from)

\* C6: right after the 10 ms timer of init the slider is on the first real
\* card: currentIndex = cardsToShow and the card there is real card 0.
C6_InitialPosition ==
    last.op = "init" => (currentIndex = cardsToShow /\ CardAt(currentIndex) = 0)

\* C7: after every slideToIndex call and every wrap-around reset, in every
\* configuration, maxIndex is the number totalCards - cardsToShow and
\* 0 <= currentIndex <= maxIndex.
C7_IndexBounds ==
    last.op \in SlideSteps =>
        /\ IsNum(maxIndex) /\ IsNum(totalCards)
        /\ maxIndex = totalCards - cardsToShow
        /\ IsNum(currentIndex)
        /\ 0 <= currentIndex /\ currentIndex <= maxIndex

\* C8: in loop mode, while a wrap-around timer (300 ms or 50 ms) of a slide is
\* pending, isAnimating is true, and at most one 300 ms timer is pending.
C8_AnimationLock ==
    (loop /\ resetTimers + unlockTimers > 0) => (isAnimating /\ resetTimers <= 1)

\* C9: when dots exist exactly one dot is active, and whenever the slider is
\* settled after the initial positioning the active dot is the real index of
\* the card at currentIndex.
C9_DotsTrack ==
    dots => /\ Cardinality(activeDots) = 1
            /\ Settled => activeDots = {CardAt(currentIndex)}

\* C10: when a drag that began with the slider settled at index i is released
\* with movedBy, the slider is at i + 1 (movedBy < 0) or i - 1 (movedBy > 0),
\* clamped to [0, maxIndex], if |movedBy| > cardFullWidth / 3, and at i otherwise.
C10_DragRelease ==
    last.op = "release" =>
        currentIndex =
            IF OverThreshold(last.m, cardFullWidth)
            THEN JsMax(0, JsMin(last.from + (IF last.m < 0 THEN 1 ELSE -1), maxIndex))
            ELSE last.from

\* C11: when N > cardsToShow = c, the wrapper holds the last c real cards in
\* their original order as clones, the N real cards, then the first c real
\* cards in their original order as clones: position p shows real card
\* (p - c) mod N for every p in 0..N+2c-1, exactly the first c and the last c
\* positions are clones, totalCards = N + 2c and maxIndex = N + c.
C11_CloneLayout ==
    totalRealCards > cardsToShow =>
        /\ Len(wrapper) = totalRealCards + 2 * cardsToShow
        /\ \A p \in 0..(totalRealCards + 2 * cardsToShow - 1) :
              /\ CardAt(p) = Mod(p - cardsToShow, totalRealCards)
              /\ IsCloneAt(p) = (p < cardsToShow \/ p >= totalRealCards + cardsToShow)
        /\ totalCards = totalRealCards + 2 * cardsToShow
        /\ maxIndex = totalRealCards + cardsToShow

\* C12: once a touchmove of a gesture has been classified as vertical, no later
\* touchmove of the same gesture starts dragging the slider, changes
\* currentTranslate or calls preventDefault.
C12_VerticalLeftToPage ==
    [][(vertical /\ TouchMove) =>
          (~isDragging' /\ currentTranslate' = currentTranslate /\ ~prevented')]_vars

(***************************************************************************)
(* The category dropdown: src/shop-category.js                             *)
(* The button and the menu are separate elements, the arrow is inside the  *)
(* button and the .dropdown-item links are inside the menu.                *)
(***************************************************************************)

\* "item" is a .dropdown-item of the menu, "otherItem" one elsewhere on the page
ClickTargets == {"button", "arrow", "item", "otherItem", "menu", "outside"}
Items == {"item", "otherItem"}
Keys == {"Escape", "Enter", "Tab"}

\* dropdownBtn.contains(target), dropdownMenu.contains(target)
BtnContains(tgt) == tgt \in {"button", "arrow"}
MenuContains(tgt) == tgt \in {"item", "menu"}

\* the dropdown as the listeners see it
DdCur == [active |-> btnActive, show |-> menuShow, arrow |-> arrowTransform]
\* an event on its way through the listeners
Event(d) == [d |-> d, stopped |-> FALSE, prevented |-> FALSE, ran |-> {}]

ddClose(d) ==
    [d EXCEPT !.active = FALSE, !.show = FALSE,
              !.arrow = IF hasArrow THEN "rotate(0deg)" ELSE @]

\* the click listener of dropdownBtn
btnClickMissesMenu(e) ==
    LET shown == e.d.show
    IN  [e EXCEPT !.stopped = TRUE, !.prevented = TRUE, !.ran = @ \cup {"button"},
                  !.d = [@ EXCEPT !.active = ~@,
                                  !.arrow = IF ~hasArrow THEN @
                                            ELSE IF shown THEN "rotate(180deg)"
                                            ELSE "rotate(0deg)"]]

btnClick(e) ==
    LET shown == ~e.d.show
    IN  [e EXCEPT !.stopped = TRUE, !.prevented = TRUE, !.ran = @ \cup {"button"},
                  !.d = [@ EXCEPT !.active = ~@, !.show = shown,
                                  !.arrow = IF ~hasArrow THEN @
                                            ELSE IF shown THEN "rotate(180deg)"
                                            ELSE "rotate(0deg)"]]

\* the click listener of document
docClickIgnoresMenu(e, tgt) ==
    LET e1 == [e EXCEPT !.ran = @ \cup {"document"}]
    IN  IF ~BtnContains(tgt)
        THEN [e1 EXCEPT !.d = ddClose(@), !.ran = @ \cup {"outside-close"}]
        ELSE e1

docClick(e, tgt) ==
    LET e1 == [e EXCEPT !.ran = @ \cup {"document"}]
    IN  IF ~BtnContains(tgt) /\ ~MenuContains(tgt)
        THEN [e1 EXCEPT !.d = ddClose(@), !.ran = @ \cup {"outside-close"}]
        ELSE e1

\* the click listener of each .dropdown-item
itemClick(e) == [e EXCEPT !.d = ddClose(@), !.ran = @ \cup {"item"}]

\* the keydown listener of document
docKeydown(e, key) ==
    LET e1 == [e EXCEPT !.ran = @ \cup {"document"}]
    IN  IF key = "Escape" /\ e.d.show THEN [e1 EXCEPT !.d = ddClose(@)] ELSE e1

\* a click bubbling from its target to document
dispatchClick(d, tgt) ==
    LET e0 == Event(d)
        e1 == IF BtnContains(tgt) THEN btnClick(e0)
              ELSE IF tgt \in Items THEN itemClick(e0)
              ELSE e0
    IN  IF e1.stopped THEN e1 ELSE docClick(e1, tgt)

DdCommit(d) ==
    /\ btnActive' = d.active
    /\ menuShow' = d.show
    /\ arrowTransform' = d.arrow

\* the markup the script finds at DOMContentLoaded: the two classes are in
\* step, as every listener keeps them
DropdownInit ==
    /\ btnActive \in BOOLEAN
    /\ menuShow = btnActive
    /\ arrowTransform = "unset"
    /\ hasArrow \in BOOLEAN
    /\ markup = DdCur
    /\ ddLast = [ev |-> "load", what |-> "none", before |-> DdCur,
                 stopped |-> FALSE, prevented |-> FALSE, ran |-> {}]
    /\ ddRun = <<>>

Click ==
    \E tgt \in ClickTargets :
        LET e == dispatchClick(DdCur, tgt)
        IN  /\ DdCommit(e.d)
            /\ ddLast' = [ev |-> "click", what |-> tgt, before |-> DdCur,
                          stopped |-> e.stopped, prevented |-> e.prevented, ran |-> e.ran]
            /\ ddRun' = IF ~BtnContains(tgt) THEN <<>>
                        ELSE IF Len(ddRun) < 2 THEN Append(ddRun, DdCur)
                        ELSE <<ddRun[2], DdCur>>
            /\ UNCHANGED <<hasArrow, markup, sliderVars, scrollVars>>

Keydown ==
    \E key \in Keys :
        LET e == docKeydown(Event(DdCur), key)
        IN  /\ DdCommit(e.d)
            /\ ddLast' = [ev |-> "keydown", what |-> key, before |-> DdCur,
                          stopped |-> e.stopped, prevented |-> e.prevented, ran |-> e.ran]
            /\ ddRun' = <<>>
            /\ UNCHANGED <<hasArrow, markup, sliderVars, scrollVars>>

\* the link of a clicked .dropdown-item is followed (its default is not
\* prevented) and the page it leads to is loaded
ItemNavigates ==
    /\ ddLast.ev = "click" /\ ddLast.what \in Items /\ ~ddLast.prevented
    /\ DdCommit(markup)
    /\ ddLast' = [ev |-> "load", what |-> "none", before |-> markup,
                  stopped |-> FALSE, prevented |-> FALSE, ran |-> {}]
    /\ ddRun' = <<>>
    /\ UNCHANGED <<hasArrow, markup, sliderVars, scrollVars>>

DropdownNext ==
    \/ Click
    \/ Keydown
    \/ ItemNavigates


\* the arrow as the page shows it: no inline transform is no rotation
Angle(a) == IF a = "rotate(180deg)" THEN 180 ELSE 0

\* C3: a click on the button toggles 'active' and 'show', leaves the arrow at
\* 180deg when the menu is shown and at 0deg when it is not, never reaches the
\* document's click listener, and two button clicks in a row restore the
\* classes that held before them.
C3_ClickToggle ==
    /\ (ddLast.ev = "click" /\ BtnContains(ddLast.what)) =>
          /\ btnActive = ~ddLast.before.active
          /\ menuShow = ~ddLast.before.show
          /\ hasArrow => Angle(arrowTransform) = (IF menuShow THEN 180 ELSE 0)
          /\ hasArrow => arrowTransform # "unset"
          /\ "document" \notin ddLast.ran
          /\ "outside-close" \notin ddLast.ran
    /\ Len(ddRun) = 2 =>
          /\ btnActive = ddRun[1].active
          /\ menuShow = ddRun[1].show
          /\ (hasArrow /\ ddRun[1].arrow # "unset") => arrowTransform = ddRun[1].arrow

\* C3 witness: the dropdown was closed, two button clicks in a row opened and
\* closed it again
C3_Witness ==
    /\ Len(ddRun) = 2 /\ hasArrow
    /\ ~ddRun[1].active /\ ~ddRun[1].show
    /\ ddRun[2].active /\ ddRun[2].show /\ ddRun[2].arrow = "rotate(180deg)"
    /\ ~btnActive /\ ~menuShow /\ arrowTransform = "rotate(0deg)"
    /\ ddLast.ev = "click" /\ ddLast.what = "button"

Closed(d) == ~d.active /\ ~d.show /\ Angle(d.arrow) = 0

MaxAnims == 2
\* most 500 ms timers pending at once
MaxPending == 2

\* config.offset, config.duration; the jump distance of animateScroll
offset == 80
duration == 800
JumpDistance == 5

\* null, undefined and '' alike
NoValue == <<>>
Pages == {"home", "other"}
\* the href of the links the selector of initSmoothScroll matches
Hrefs == { <<"#">>, <<"#", "a">>, <<"#", "b">>, <<"#", "zz">>,
           <<"index.html", "#", "a">>, <<"./", "index.html", "#", "b">>,
           <<"/", "index.html", "#", "zz">>, <<"index.html", "#">> }
\* the ids of the elements of each page, and rect.top + scrollTop of each
IdsOn(p) == IF p = "home" THEN {"a", "b"} ELSE {"a"}
TopOf(p, id) == IF p = "home" THEN (IF id = "a" THEN 84 ELSE 120) ELSE 60
\* time between an animation frame and the one before it
FrameSteps == {200, 400, 1000}

StartsWith(s, pre) == Len(s) >= Len(pre) /\ SubSeq(s, 1, Len(pre)) = pre
\* where pat occurs in s
Occurrences(s, pat) ==
    {i \in 1..(Len(s) - Len(pat) + 1) : SubSeq(s, i, i + Len(pat) - 1) = pat}
Includes(s, pat) == Occurrences(s, pat) # {}
MinOf(S) == CHOOSE x \in S : \A y \in S : x <= y
\* s.split(pat)[1], for s that includes pat
SplitSecond(s, pat) ==
    LET i == MinOf(Occurrences(s, pat))
        rest == SubSeq(s, i + Len(pat), Len(s))
    IN  IF Includes(rest, pat)
        THEN SubSeq(rest, 1, MinOf(Occurrences(rest, pat)) - 1)
        ELSE rest

isHomePage == page = "home"

extractIdFromHref(href) ==
    IF Includes(href, <<"index.html", "#">>)
    THEN <<"#">> \o SplitSecond(href, <<"index.html", "#">>)
    ELSE IF Includes(href, <<"./", "index.html", "#">>)
    THEN <<"#">> \o SplitSecond(href, <<"./", "index.html", "#">>)
    ELSE IF StartsWith(href, <<"#">>) THEN href
    ELSE NoValue

\* the id of the element found, "none" for null
getTargetElement(hash) ==
    IF hash = NoValue \/ hash = <<"#">> THEN "none"
    ELSE IF Len(hash) = 2 /\ hash[1] = "#" /\ hash[2] \in IdsOn(page) THEN hash[2]
    ELSE "none"

getTargetPosition(target) == TopOf(page, target) - offset

\* the window and the calls, as the functions write them
World == [scrollY |-> scrollY, anims |-> anims, finished |-> <<>>, pushLog |-> <<>>]

ScrollToEv(v) == [e |-> "scrollTo", v |-> v]
ResolveEv == [e |-> "resolve", v |-> 0]
PushEv == [e |-> "pushState", v |-> 0]

\* window.scrollTo(0, v): the window cannot scroll above its top
scrollTo(w, v) == [w EXCEPT !.scrollY = IF v < 0 THEN 0 ELSE v]

\* the callback of .then(...): history.pushState(null, null, hash)
thenPushState(w, call) ==
    [w EXCEPT !.pushLog = Append(@, call.hash),
              !.finished = Append(@, [call EXCEPT !.trace = Append(@, PushEv)])]

\* easeInOutQuad(p / duration) * distance, p the time elapsed capped at duration
Eased(distance, p) ==
    LET d2 == duration * duration
        num == IF 2 * p < duration THEN 2 * p * p
               ELSE 4 * p * duration - 2 * p * p - d2
    IN  (distance * num) \div d2

\* one call of the callback animation of animateScroll, dt after the call
\* before it, and the callback of the promise when it resolves
animationResolvesEarly(w, call, dt) ==
    LET timeElapsed == call.elapsed + dt
        p == IF timeElapsed < duration THEN timeElapsed ELSE duration
        v == call.start + Eased(call.distance, p)
        c1 == [call EXCEPT !.elapsed = timeElapsed, !.trace = Append(@, ScrollToEv(v))]
        w1 == scrollTo(w, v)
    IN  IF timeElapsed < duration
        THEN [w1 EXCEPT !.anims = Append(@, c1)]
        ELSE LET c2 == [c1 EXCEPT !.trace = @ \o <<ResolveEv, ScrollToEv(call.target)>>]
             IN  thenPushState(scrollTo(w1, call.target), c2)

animation(w, call, dt) ==
    LET timeElapsed == call.elapsed + dt
        p == IF timeElapsed < duration THEN timeElapsed ELSE duration
        v == call.start + Eased(call.distance, p)
        c1 == [call EXCEPT !.elapsed = timeElapsed, !.trace = Append(@, ScrollToEv(v))]
        w1 == scrollTo(w, v)
    IN  IF timeElapsed < duration
        THEN [w1 EXCEPT !.anims = Append(@, c1)]
        ELSE LET c2 == [c1 EXCEPT !.trace = @ \o <<ScrollToEv(call.target), ResolveEv>>]
             IN  thenPushState(scrollTo(w1, call.target), c2)

\* animateScroll(targetPosition).then(() => history.pushState(null, null, hash))
animateScroll(w, targetPosition, hash) ==
    LET startPosition == w.scrollY
        distance == targetPosition - startPosition
        call == [target |-> targetPosition, start |-> startPosition,
                 distance |-> distance, elapsed |-> 0, hash |-> hash, trace |-> <<>>]
    IN  IF (IF distance < 0 THEN 0 - distance ELSE distance) < JumpDistance
        THEN thenPushState(scrollTo(w, targetPosition),
                           [call EXCEPT !.trace = <<ScrollToEv(targetPosition), ResolveEv>>])
        ELSE [w EXCEPT !.anims = Append(@, call)]

\* scroll to the element of hash, if there is one
scrollToHash(w, hash) ==
    LET target == getTargetElement(hash)
    IN  IF target # "none" THEN animateScroll(w, getTargetPosition(target), hash) ELSE w

\* handleAnchorClick: the window, sessionStorage and the event afterwards
handleAnchorClick(w, st, href) ==
    IF href = NoValue THEN [w |-> w, stored |-> st, prevented |-> FALSE]
    ELSE IF StartsWith(href, <<"#">>) /\ href # <<"#">>
    THEN [w |-> scrollToHash(w, href), stored |-> st, prevented |-> TRUE]
    ELSE IF Includes(href, <<"index.html", "#">>)
    THEN IF isHomePage
         THEN [w |-> scrollToHash(w, extractIdFromHref(href)), stored |-> st,
               prevented |-> TRUE]
         ELSE LET id == extractIdFromHref(href)
              IN  [w |-> w, stored |-> IF id # NoValue THEN id ELSE st,
                   prevented |-> FALSE]
    ELSE [w |-> w, stored |-> st, prevented |-> FALSE]

\* checkStoredScrollTarget: sessionStorage and the 500 ms timers afterwards
checkStoredKeepsKey(st, timers) ==
    IF st # NoValue THEN [stored |-> st, timers |-> Append(timers, st)]
    ELSE [stored |-> st, timers |-> timers]

checkStoredScrollTarget(st, timers) ==
    IF st # NoValue THEN [stored |-> NoValue, timers |-> Append(timers, st)]
    ELSE [stored |-> st, timers |-> timers]

\* initSmoothScroll; attaching handleAnchorClick again changes nothing
initSmoothScroll(st, timers) == checkStoredScrollTarget(st, timers)

\* every callback waiting for the frame is called, in the order of the requests
RECURSIVE RunFrame(_, _, _)
RunFrame(w, calls, dt) ==
    IF calls = <<>> THEN w
    ELSE RunFrame(animation(w, Head(calls), dt), Tail(calls), dt)

SsCommit(w) ==
    /\ Len(w.anims) <= MaxAnims
    /\ scrollY' = w.scrollY
    /\ anims' = w.anims
    /\ finished' = w.finished
    /\ pushLog' = w.pushLog

SsStep(ev, what) == [ev |-> ev, what |-> what, page |-> page, stored |-> stored,
                     nAnims |-> Len(anims), nTimers |-> Len(storedTimers),
                     prevented |-> FALSE]

\* a page has loaded and DOMContentLoaded has run initSmoothScroll
ScrollInit ==
    /\ page \in Pages
    /\ scrollY = 0
    /\ stored = NoValue
    /\ storedTimers = <<>>
    /\ anims = <<>>
    /\ finished = <<>>
    /\ pushLog = <<>>
    /\ ssLast = [ev |-> "load", what |-> NoValue, page |-> page, stored |-> NoValue,
                 nAnims |-> 0, nTimers |-> 0, prevented |-> FALSE]

\* click on a link handleAnchorClick is attached to
LinkClick ==
    \E href \in Hrefs :
        LET r == handleAnchorClick(World, stored, href)
        IN  /\ SsCommit(r.w)
            /\ stored' = r.stored
            /\ ssLast' = [SsStep("click", href) EXCEPT !.prevented = r.prevented]
            /\ UNCHANGED <<page, storedTimers, sliderVars, ddVars>>

\* an animation frame
Frame ==
    /\ anims # <<>>
    /\ \E dt \in FrameSteps : SsCommit(RunFrame([World EXCEPT !.anims = <<>>], anims, dt))
    /\ ssLast' = SsStep("frame", NoValue)
    /\ UNCHANGED <<page, stored, storedTimers, sliderVars, ddVars>>

\* the 500 ms timer of checkStoredScrollTarget
StoredTimerFire ==
    /\ storedTimers # <<>>
    /\ SsCommit(scrollToHash(World, Head(storedTimers)))
    /\ storedTimers' = Tail(storedTimers)
    /\ ssLast' = SsStep("timer", Head(storedTimers))
    /\ UNCHANGED <<page, stored, sliderVars, ddVars>>

\* the tab loads a page (a followed link, a reload): its timers and animation
\* frames are gone with the old document, sessionStorage stays, and
\* DOMContentLoaded runs initSmoothScroll
Load ==
    \E p \in Pages :
        LET r == initSmoothScroll(stored, <<>>)
        IN  /\ page' = p
            /\ scrollY' = 0
            /\ anims' = <<>>
            /\ finished' = <<>>
            /\ pushLog' = <<>>
            /\ stored' = r.stored
            /\ storedTimers' = r.timers
            /\ ssLast' = [SsStep("init", NoValue) EXCEPT !.nAnims = 0, !.nTimers = 0]
            /\ UNCHANGED <<sliderVars, ddVars>>

\* window.SmoothScroll.init() called by the page
ApiInit ==
    LET r == initSmoothScroll(stored, storedTimers)
    IN  /\ Len(r.timers) <= MaxPending
        /\ stored' = r.stored
        /\ storedTimers' = r.timers
        /\ finished' = <<>>
        /\ pushLog' = <<>>
        /\ ssLast' = SsStep("init", NoValue)
        /\ UNCHANGED <<page, scrollY, anims, sliderVars, ddVars>>

ScrollNext ==
    \/ LinkClick
    \/ Frame
    \/ StoredTimerFire
    \/ Load
    \/ ApiInit

(***************************************************************************)
(* Properties of the smooth-scroll script.                                 *)
(***************************************************************************)
\* an href of the form <path>index.html#<id>, and its '#<id>'
HomeLink(h) == Includes(h, <<"index.html", "#">>) /\ h[1] # "#"
HashOf(h) == SubSeq(h, MinOf({k \in 1..Len(h) : h[k] = "#"}), Len(h))
\* a hash that names an element of the page shown
Names(hash) == Len(hash) = 2 /\ hash[1] = "#" /\ hash[2] \in IdsOn(page)
\* the animateScroll calls made by the last step: still animating, or ended at once
NewCalls == SubSeq(anims, ssLast.nAnims + 1, Len(anims)) \o finished
\* the last step made one call, for this hash, to the position of its element
ScrollsTo(hash) ==
    /\ Len(NewCalls) = 1
    /\ NewCalls[1].hash = hash
    /\ NewCalls[1].target = TopOf(page, hash[2]) - 80

\* C4: a click on <path>index.html#<id> away from the home page is not
\* prevented and stores '#<id>'; every initSmoothScroll leaves the key absent
\* and sets one 500 ms timer for the value it found, none when it found none;
\* the timer scrolls to the element exactly when the page has it.
C4_CrossPageAnchor ==
    /\ (ssLast.ev = "click" /\ ssLast.page = "other" /\ HomeLink(ssLast.what)) =>
          /\ ~ssLast.prevented
          /\ stored = HashOf(ssLast.what)
          /\ NewCalls = <<>>
    /\ ssLast.ev = "init" =>
          /\ stored = NoValue
          /\ NewCalls = <<>>
          /\ IF ssLast.stored = NoValue
             THEN Len(storedTimers) = ssLast.nTimers
             ELSE /\ Len(storedTimers) = ssLast.nTimers + 1
                  /\ storedTimers[Len(storedTimers)] = ssLast.stored
    /\ ssLast.ev = "timer" =>
          IF Names(ssLast.what) THEN ScrollsTo(ssLast.what) ELSE NewCalls = <<>>

\* C4 witness: on the home page the timer set for the stored '#b' has fired,
\* the animation towards b has started and the key is gone
C4_Witness ==
    /\ ssLast.ev = "timer" /\ ssLast.what = <<"#", "b">>
    /\ page = "home" /\ stored = NoValue
    /\ Len(anims) = ssLast.nAnims + 1
    /\ anims[Len(anims)].target = 40

\* the trace of a call that has ended: scrollTo calls only, the last one to the
\* target, then the promise resolved, then the one pushState
Ended(c) ==
    LET n == Len(c.trace)
    IN  /\ n >= 3
        /\ c.trace[n] = PushEv
        /\ c.trace[n - 1] = ResolveEv
        /\ c.trace[n - 2] = ScrollToEv(c.target)
        /\ \A k \in 1..(n - 2) : c.trace[k].e = "scrollTo"
\* the trace of a call that still animates: scrollTo calls only
Animating(c) == \A k \in 1..Len(c.trace) : c.trace[k].e = "scrollTo"

\* C5: the last scrollTo of every animateScroll call is to its target, the
\* promise resolves after it, pushState follows the resolution, once per call,
\* and a click on a local anchor makes exactly one call when its element
\* exists and none otherwise.
C5_ExactEnd ==
    /\ \A k \in 1..Len(finished) : Ended(finished[k])
    /\ \A k \in 1..Len(anims) : Animating(anims[k])
    /\ pushLog = [k \in 1..Len(finished) |-> finished[k].hash]
    /\ (ssLast.ev = "click" /\ ssLast.what[1] = "#" /\ ssLast.what # <<"#">>) =>
          /\ ssLast.prevented
          /\ IF Names(ssLast.what) THEN ScrollsTo(ssLast.what) ELSE NewCalls = <<>>

\* C5 witness: an animation frame has ended a call that went through a
\* position other than its target, and the window is at the target
C5_Witness ==
    /\ ssLast.ev = "frame"
    /\ \E k \in 1..Len(finished) :
          /\ Len(finished[k].trace) > 3
          /\ finished[k].trace[1].v # finished[k].target
          /\ scrollY = finished[k].target
          /\ pushLog[k] = finished[k].hash

(***************************************************************************)
(* The specifications: one script runs, the others stay as loaded.         *)
(***************************************************************************)
SliderIdle ==
    /\ totalRealCards = 1 /\ cardsToShow = 1 /\ loop = FALSE
    /\ wrapper = setupInfiniteLoop(1, 1)
    /\ totalCards = Undefined /\ maxIndex = Undefined
    /\ dots = FALSE /\ activeDots = {}
    /\ cardFullWidth = 30
    /\ currentIndex = 0 /\ currentTranslate = 0 /\ prevTranslate = 0
    /\ isAnimating = FALSE /\ isDragging = FALSE /\ isHorizontalSwipe = FALSE
    /\ startX = 0 /\ startY = 0
    /\ gestureResetTimer = FALSE
    /\ transition = "unset" /\ dragging = FALSE
    /\ initTimer = FALSE
    /\ resetTimers = 0 /\ unlockTimers = 0
    /\ touch = "none" /\ mouseBtn = FALSE /\ mouseListening = FALSE
    /\ prevented = FALSE
    /\ last = Step("construct", 0, 0)
    /\ watch = NoWatch
    /\ vertical = FALSE

DropdownIdle ==
    /\ btnActive = FALSE /\ menuShow = FALSE /\ arrowTransform = "unset"
    /\ hasArrow = TRUE
    /\ markup = DdCur
    /\ ddLast = [ev |-> "load", what |-> "none", before |-> DdCur,
                 stopped |-> FALSE, prevented |-> FALSE, ran |-> {}]
    /\ ddRun = <<>>

ScrollIdle ==
    /\ page = "home" /\ scrollY = 0 /\ stored = NoValue
    /\ storedTimers = <<>> /\ anims = <<>> /\ finished = <<>> /\ pushLog = <<>>
    /\ ssLast = [ev |-> "load", what |-> NoValue, page |-> "home", stored |-> NoValue,
                 nAnims |-> 0, nTimers |-> 0, prevented |-> FALSE]

SliderSpecInit == SliderInit /\ DropdownIdle /\ ScrollIdle
SliderSpec == SliderSpecInit /\ [][SliderNext]_vars

DropdownSpecInit == DropdownInit /\ SliderIdle /\ ScrollIdle
DropdownSpec == DropdownSpecInit /\ [][DropdownNext]_vars

ScrollSpecInit == ScrollInit /\ SliderIdle /\ DropdownIdle
ScrollSpec == ScrollSpecInit /\ [][ScrollNext]_vars

====
